---- MODULE Spec2Model ----
(***************************************************************************)
(* Smart Krishi API (src/main.py): the request handlers over the document  *)
(* store, with the identifier-echo create as separate store operations so  *)
(* that concurrent requests interleave between them.                       *)
(*                                                                         *)
(* Python values are tagged records: a str is a sequence of characters, a  *)
(* datetime a tick count, an ObjectId a number, a dict a function from     *)
(* field names to values, a list a sequence of values.                     *)
(***************************************************************************)
EXTENDS Integers, Sequences, FiniteSets, Bags, TLC

VARIABLES user, cropdiagnosis, mandiprice, nextOid, now, inflight, last,
          mandiOk

vars == <<user, cropdiagnosis, mandiprice, nextOid, now, inflight, last, mandiOk>>

\* Bounds of the model.
MaxDocs == 2
MaxTime == 1

(***************************************************************************)
(* Python values                                                           *)
(***************************************************************************)
None == [t |-> "none"]
S(cs) == [t |-> "str", v |-> cs]
PyInt(n) == [t |-> "int", v |-> n]
\* a float as the fraction n/d
Float(n, d) == [t |-> "float", n |-> n, d |-> d]
Bool(b) == [t |-> "bool", v |-> b]
DateTime(n) == [t |-> "datetime", v |-> n]
Oid(n) == [t |-> "oid", v |-> n]
List(s) == [t |-> "list", v |-> s]
Dict(d) == [t |-> "dict", v |-> d]

\* Python truth value of a value (`not x`, `x or y`, `if x`).
Truthy(x) ==
  CASE x.t = "none" -> FALSE
    [] x.t = "str" -> x.v # <<>>
    [] x.t = "list" -> x.v # <<>>
    [] x.t = "dict" -> DOMAIN x.v # {}
    [] x.t = "int" -> x.v # 0
    [] x.t = "float" -> x.n # 0
    [] x.t = "bool" -> x.v
    [] OTHER -> TRUE

\* dict.get(k): None when the key is absent.
Get(d, k) == IF k \in DOMAIN d THEN d[k] ELSE None

\* {**d, k: val}
Put(d, k, val) == [x \in DOMAIN d \cup {k} |-> IF x = k THEN val ELSE d[x]]

(***************************************************************************)
(* bson.ObjectId and datetime text forms                                   *)
(***************************************************************************)
HexDigits == <<"0", "1", "2", "3", "4", "5", "6", "7",
               "8", "9", "a", "b", "c", "d", "e", "f">>
HexSet == {HexDigits[i] : i \in 1..16}
OidHexLen == 24

RECURSIVE ToHex(_, _)
ToHex(n, len) ==
  IF len = 0 THEN <<>>
  ELSE Append(ToHex(n \div 16, len - 1), HexDigits[(n % 16) + 1])

HexVal(c) == (CHOOSE i \in 1..16 : HexDigits[i] = c) - 1

RECURSIVE FromHex(_)
FromHex(cs) ==
  IF cs = <<>> THEN 0
  ELSE 16 * FromHex(SubSeq(cs, 1, Len(cs) - 1)) + HexVal(cs[Len(cs)])

\* str(ObjectId): 24 lower-case hex digits
StrOid(o) == ToHex(o.v, OidHexLen)

IsValidOid(cs) == Len(cs) = OidHexLen /\ \A i \in 1..Len(cs) : cs[i] \in HexSet

InvalidId == [t |-> "raise", v |-> "InvalidId"]

\* ObjectId(s): raises bson.errors.InvalidId unless s is 24 hex digits
ObjectId(cs) == IF IsValidOid(cs) THEN Oid(FromHex(cs)) ELSE InvalidId

DecDigits == <<"0", "1", "2", "3", "4", "5", "6", "7", "8", "9">>

\* datetime.isoformat(): fixed-width, zero-padded text, so that text order is
\* time order
IsoFormat(dt) ==
  <<"T", DecDigits[((dt.v \div 10) % 10) + 1], DecDigits[(dt.v % 10) + 1]>>

utcnow == DateTime(now)

(***************************************************************************)
(* oid_to_str                                                              *)
(***************************************************************************)
HasIsoformat(x) == x.t = "datetime"

\* d["id"] = str(d["_id"]) without the pop
CopyId(d) ==
  IF Truthy(Get(d, "_id")) THEN Put(d, "id", S(StrOid(d["_id"]))) ELSE d

PopId(d) ==
  IF Truthy(Get(d, "_id"))
  THEN [k \in (DOMAIN d \ {"_id"}) \cup {"id"} |->
          IF k = "id" THEN S(StrOid(d["_id"])) ELSE d[k]]
  ELSE d

IsoValues(d) ==
  [k \in DOMAIN d |-> IF HasIsoformat(d[k]) THEN S(IsoFormat(d[k])) ELSE d[k]]

RECURSIVE oid_to_str(_)
oid_to_str(doc) ==
  IF ~Truthy(doc) THEN doc
  ELSE IF doc.t = "list"
       THEN List([i \in DOMAIN doc.v |-> oid_to_str(doc.v[i])])
  ELSE IF doc.t = "dict" THEN Dict(IsoValues(PopId(doc.v)))
  ELSE doc

(***************************************************************************)
(* The document store: a collection is the sequence of its documents in    *)
(* insertion order                                                         *)
(***************************************************************************)
\* insert_one: the store assigns the identifier
InsertOne(coll, doc, oid) == Append(coll, Put(doc, "_id", oid))

\* create_document(collection, doc): inserts and returns the identifier's text
create_document_id(oid) == StrOid(oid)

Matches(d, filter) == \A k \in DOMAIN filter : Get(d, k) = filter[k]

\* update_one(filter, {"$set": {field: val}}): the first match only
UpdateOneSet(coll, filter, field, val) ==
  IF \E i \in DOMAIN coll : Matches(coll[i], filter)
  THEN LET i == CHOOSE j \in DOMAIN coll :
                  /\ Matches(coll[j], filter)
                  /\ \A h \in 1..(j - 1) : ~Matches(coll[h], filter)
       IN [coll EXCEPT ![i] = Put(coll[i], field, val)]
  ELSE coll

\* find(filter)
Find(coll, filter) == SelectSeq(coll, LAMBDA d : Matches(d, filter))

\* find_one(filter): the document as a dict, or None
FindOne(coll, filter) ==
  LET m == Find(coll, filter) IN IF m = <<>> THEN None ELSE Dict(m[1])

\* cursor.sort(key, -1): descending, ties in natural order
InsertDesc(sorted, d, key) ==
  LET n == Cardinality({i \in DOMAIN sorted : sorted[i][key].v >= d[key].v})
  IN SubSeq(sorted, 1, n) \o <<d>> \o SubSeq(sorted, n + 1, Len(sorted))

RECURSIVE SortDesc(_, _)
SortDesc(coll, key) ==
  IF coll = <<>> THEN <<>>
  ELSE InsertDesc(SortDesc(SubSeq(coll, 1, Len(coll) - 1), key),
                  coll[Len(coll)], key)

\* list(cursor) as a Python list of dicts
ListOf(docs) == List([i \in DOMAIN docs |-> Dict(docs[i])])

(***************************************************************************)
(* Requests and responses                                                  *)
(*                                                                         *)
(* inflight is the bag of requests between two store operations; last is   *)
(* the response on its way to the client, NoResp once it is delivered;     *)
(* mandiOk counts the update-mandi calls answered so far.                  *)
(***************************************************************************)
\* what the client receives: the status and the JSON body
Resp(op, in, status, body) ==
  [op |-> op, in |-> in, status |-> status, body |-> body]

NoResp == Resp("none", None, 0, None)

\* raise HTTPException(status_code, detail)
HTTPException(op, in, status, detail) ==
  Resp(op, in, status, Dict([detail |-> S(detail)]))

\* an exception no handler catches: the framework answers 500
Unhandled(op, in, exc) == Resp(op, in, 500, S(<<"Internal Server Error">>))

Begin(r) == inflight' = inflight (+) SetToBag({r})
Step(r, r2) == inflight' = (inflight (-) SetToBag({r})) (+) SetToBag({r2})
End(r) == inflight' = inflight (-) SetToBag({r})
Running == BagToSet(inflight)

\* documents not yet inserted by requests already accepted
Pending ==
  LET S0 == {r \in Running : r.pc = "create"}
  IN BagCardinality([r \in S0 |-> inflight[r]])
Room == nextOid + Pending < MaxDocs

Asha == <<"A", "s", "h", "a">>
Pune == <<"P", "u", "n", "e">>
Nashik == <<"N", "a", "s", "h", "i", "k">>
Wheat == <<"W", "h", "e", "a", "t">>
Rice == <<"R", "i", "c", "e">>

(***************************************************************************)
(* User APIs                                                               *)
(***************************************************************************)
\* a missing phone with any other fields; an accepted registration
RegisterPayloads ==
  [name : {S(Asha)}, phone : {S(<<>>)}, village : {None, S(Pune)},
   district : {None}, crops : {None, List(<<S(Wheat)>>)}]
  \cup
  [name : {S(Asha)}, phone : {S(<<"9", "8">>)}, village : {None},
   district : {None}, crops : {None}]

\* payload.crops or []
OrEmptyList(x) == IF Truthy(x) THEN x ELSE List(<<>>)

user_doc(payload) ==
  [name |-> payload.name, phone |-> payload.phone,
   village |-> payload.village, district |-> payload.district,
   crops |-> OrEmptyList(payload.crops), createdAt |-> utcnow]

\* the check as `payload.phone is None`: an empty phone passes
PhoneIsNone(payload) == payload.phone = None

\* the phone check of register_user
PhoneMissing(payload) == ~Truthy(payload.phone)

\* register_user up to the document it is about to create
RegisterStart(payload) ==
  /\ last = NoResp
  /\ IF PhoneMissing(payload)
     THEN /\ last' = HTTPException("register", payload, 400, <<"Phone is required">>)
          /\ UNCHANGED inflight
     ELSE /\ Room
          /\ Begin([op |-> "register", pc |-> "create", in |-> payload,
                    doc |-> user_doc(payload)])
          /\ UNCHANGED last
  /\ UNCHANGED <<user, cropdiagnosis, mandiprice, nextOid, now, mandiOk>>

\* inserted_id = create_document("user", user_doc)
RegisterCreate(r) ==
  /\ last = NoResp
  /\ r.op = "register" /\ r.pc = "create"
  /\ user' = InsertOne(user, r.doc, Oid(nextOid))
  /\ nextOid' = nextOid + 1
  /\ Step(r, [op |-> "register", pc |-> "update", in |-> r.in,
              inserted_id |-> create_document_id(Oid(nextOid))])
  /\ UNCHANGED <<cropdiagnosis, mandiprice, now, last, mandiOk>>

\* an empty filter: the first document of the collection
EchoFilterEmpty(inserted_id) == [k \in {} |-> ObjectId(inserted_id)]

\* the filter of the identifier-echo update and of the read that follows it
EchoFilter(inserted_id) == [_id |-> ObjectId(inserted_id)]

\* update_one(filter, doc) with a doc that is no "$set": the document is
\* replaced, its identifier kept
EchoReplace(coll, inserted_id, field) ==
  [i \in DOMAIN coll |->
     IF Matches(coll[i], EchoFilter(inserted_id))
     THEN [_id |-> coll[i]["_id"]] @@ (field :> S(inserted_id))
     ELSE coll[i]]

\* the identifier-echo update:
\* update_one({"_id": ObjectId(inserted_id)}, {"$set": {field: inserted_id}})
EchoSet(coll, inserted_id, field) ==
  UpdateOneSet(coll, EchoFilter(inserted_id), field, S(inserted_id))

\* db["user"].update_one({"_id": ObjectId(inserted_id)}, {"$set": {"userId": inserted_id}})
RegisterUpdate(r) ==
  /\ last = NoResp
  /\ r.op = "register" /\ r.pc = "update"
  /\ user' = EchoSet(user, r.inserted_id, "userId")
  /\ Step(r, [r EXCEPT !.pc = "find"])
  /\ UNCHANGED <<cropdiagnosis, mandiprice, nextOid, now, last, mandiOk>>

\* saved = db["user"].find_one(...); return oid_to_str(saved)
RegisterFind(r) ==
  /\ last = NoResp
  /\ r.op = "register" /\ r.pc = "find"
  /\ last' = Resp("register", r.in, 200,
                  oid_to_str(FindOne(user, EchoFilter(r.inserted_id))))
  /\ End(r)
  /\ UNCHANGED <<user, cropdiagnosis, mandiprice, nextOid, now, mandiOk>>

\* identifiers a client may ask for: well formed (stored or not) and malformed
UserIdInputs ==
  {StrOid(Oid(n)) : n \in 0..MaxDocs} \cup
  {<<>>, <<"a", "b", "c">>, [i \in 1..OidHexLen |-> "z"]}

get_user_resp(user_id) ==
  LET oid == ObjectId(user_id) IN
  IF oid = InvalidId THEN Unhandled("get_user", user_id, InvalidId)
  ELSE LET doc == FindOne(user, [_id |-> oid]) IN
       IF ~Truthy(doc)
       THEN HTTPException("get_user", user_id, 404, <<"User not found">>)
       ELSE Resp("get_user", user_id, 200, oid_to_str(doc))

get_user(user_id) ==
  /\ last = NoResp
  /\ last' = get_user_resp(user_id)
  /\ UNCHANGED <<user, cropdiagnosis, mandiprice, nextOid, now, inflight, mandiOk>>

admin_users_resp ==
  Resp("admin_users", None, 200, oid_to_str(ListOf(SortDesc(user, "createdAt"))))

admin_users ==
  /\ last = NoResp
  /\ last' = admin_users_resp
  /\ UNCHANGED <<user, cropdiagnosis, mandiprice, nextOid, now, inflight, mandiOk>>

(***************************************************************************)
(* Disease detection APIs                                                  *)
(***************************************************************************)
U1 == <<"u", "1">>
U2 == <<"u", "2">>
U3 == <<"u", "3">>

DetectInputs ==
  [userId : {U1, U2}, crop : {Wheat}, content : {<<>>, <<137, 80>>},
   filename : {<<"leaf.png">>}]

\* str(datetime.timestamp())
TimestampText(dt) ==
  <<DecDigits[((dt.v \div 10) % 10) + 1], DecDigits[(dt.v % 10) + 1], ".", "0">>

image_url(in) ==
  <<"https://files.smartkrishi.example/">> \o TimestampText(utcnow)
    \o <<"_">> \o in.filename

diagnosis_record(in) ==
  [userId |-> S(in.userId), crop |-> S(in.crop),
   imageURL |-> S(image_url(in)),
   diseaseName |-> S(<<"Leaf Blight">>), probability |-> Float(87, 100),
   recommendation |-> S(<<"Spray copper-based fungicide; remove infected leaves; ensure proper spacing.">>),
   pesticide |-> S(<<"Copper Oxychloride 50% WP">>),
   date |-> utcnow]

\* the check as `content is None`: an empty payload passes
ContentIsNone(in) == in.content = None

\* the payload check of detect_disease
EmptyImage(in) == Len(in.content) = 0

\* detect_disease up to the record it is about to create
DetectStart(in) ==
  /\ last = NoResp
  /\ IF EmptyImage(in)
     THEN /\ last' = HTTPException("detect_disease", in, 400, <<"Empty image">>)
          /\ UNCHANGED inflight
     ELSE /\ Room
          /\ Begin([op |-> "detect_disease", pc |-> "create", in |-> in,
                    doc |-> diagnosis_record(in)])
          /\ UNCHANGED last
  /\ UNCHANGED <<user, cropdiagnosis, mandiprice, nextOid, now, mandiOk>>

\* inserted_id = create_document("cropdiagnosis", record)
DetectCreate(r) ==
  /\ last = NoResp
  /\ r.op = "detect_disease" /\ r.pc = "create"
  /\ cropdiagnosis' = InsertOne(cropdiagnosis, r.doc, Oid(nextOid))
  /\ nextOid' = nextOid + 1
  /\ Step(r, [op |-> "detect_disease", pc |-> "update", in |-> r.in,
              inserted_id |-> create_document_id(Oid(nextOid))])
  /\ UNCHANGED <<user, mandiprice, now, last, mandiOk>>

\* db["cropdiagnosis"].update_one({"_id": ...}, {"$set": {"diagnosisId": inserted_id}})
DetectUpdate(r) ==
  /\ last = NoResp
  /\ r.op = "detect_disease" /\ r.pc = "update"
  /\ cropdiagnosis' = EchoSet(cropdiagnosis, r.inserted_id, "diagnosisId")
  /\ Step(r, [r EXCEPT !.pc = "find"])
  /\ UNCHANGED <<user, mandiprice, nextOid, now, last, mandiOk>>

\* saved = db["cropdiagnosis"].find_one(...); return oid_to_str(saved)
DetectFind(r) ==
  /\ last = NoResp
  /\ r.op = "detect_disease" /\ r.pc = "find"
  /\ last' = Resp("detect_disease", r.in, 200,
                  oid_to_str(FindOne(cropdiagnosis, EchoFilter(r.inserted_id))))
  /\ End(r)
  /\ UNCHANGED <<user, cropdiagnosis, mandiprice, nextOid, now, mandiOk>>

DiagnosisUserIds == {U1, U2, U3}

\* the filter of get_diagnosis
DiagnosisFilter(user_id) == [userId |-> S(user_id)]

\* the cursor without its sort: natural order
DiagnosisCursorUnsorted(user_id) ==
  Find(cropdiagnosis, DiagnosisFilter(user_id))

\* the cursor of get_diagnosis: find(...).sort("date", -1)
DiagnosisCursor(user_id) ==
  SortDesc(Find(cropdiagnosis, DiagnosisFilter(user_id)), "date")

get_diagnosis_resp(user_id) ==
  Resp("get_diagnosis", user_id, 200, oid_to_str(ListOf(DiagnosisCursor(user_id))))

get_diagnosis(user_id) ==
  /\ last = NoResp
  /\ last' = get_diagnosis_resp(user_id)
  /\ UNCHANGED <<user, cropdiagnosis, mandiprice, nextOid, now, inflight, mandiOk>>

admin_diagnosis_resp ==
  Resp("admin_diagnosis", None, 200,
       oid_to_str(ListOf(SortDesc(cropdiagnosis, "date"))))

admin_diagnosis ==
  /\ last = NoResp
  /\ last' = admin_diagnosis_resp
  /\ UNCHANGED <<user, cropdiagnosis, mandiprice, nextOid, now, inflight, mandiOk>>

(***************************************************************************)
(* Mandi price APIs                                                        *)
(***************************************************************************)
Districts == {Pune, Nashik}

\* `if db`: the store handle is a pymongo Database, whose truth value is True
\* or raises NotImplementedError, by the version of the library
DbBoolOutcomes == {"true", "raises"}

mock_prices(district) ==
  List(<<Dict([district |-> S(district), crop |-> S(Wheat),
               price |-> PyInt(1850), updatedAt |-> S(IsoFormat(utcnow))]),
         Dict([district |-> S(district), crop |-> S(Rice),
               price |-> PyInt(2100), updatedAt |-> S(IsoFormat(utcnow))])>>)

\* the cursor of get_mandi_prices: find({"district": district}).sort("updatedAt", -1)
MandiCursor(district) ==
  SortDesc(Find(mandiprice, [district |-> S(district)]), "updatedAt")

get_mandi_prices_resp(district, dbBool) ==
  IF dbBool = "raises"
  THEN Unhandled("get_mandi_prices", district, "NotImplementedError")
  ELSE LET items == ListOf(MandiCursor(district)) IN
       IF Truthy(items)
       THEN Resp("get_mandi_prices", district, 200, oid_to_str(items))
       ELSE Resp("get_mandi_prices", district, 200, mock_prices(district))

get_mandi_prices(district, dbBool) ==
  /\ last = NoResp
  /\ last' = get_mandi_prices_resp(district, dbBool)
  /\ UNCHANGED <<user, cropdiagnosis, mandiprice, nextOid, now, inflight, mandiOk>>

\* UpdateMandiPayload: price is any float
UpdateMandiPayloads ==
  {[district |-> S(Pune), crop |-> S(Wheat), price |-> Float(-5, 1)],
   [district |-> S(Nashik), crop |-> S(Wheat), price |-> Float(1900, 1)]}

mandi_doc(payload) ==
  [district |-> payload.district, crop |-> payload.crop,
   price |-> payload.price, updatedAt |-> utcnow]

\* admin_update_mandi up to the document it is about to create
MandiStart(payload) ==
  /\ last = NoResp
  /\ Room
  /\ Begin([op |-> "admin_update_mandi", pc |-> "create", in |-> payload,
            doc |-> mandi_doc(payload)])
  /\ UNCHANGED <<user, cropdiagnosis, mandiprice, nextOid, now, last, mandiOk>>

\* mid = create_document("mandiprice", doc)
MandiCreate(r) ==
  /\ last = NoResp
  /\ r.op = "admin_update_mandi" /\ r.pc = "create"
  /\ mandiprice' = InsertOne(mandiprice, r.doc, Oid(nextOid))
  /\ nextOid' = nextOid + 1
  /\ Step(r, [op |-> "admin_update_mandi", pc |-> "update", in |-> r.in,
              inserted_id |-> create_document_id(Oid(nextOid))])
  /\ UNCHANGED <<user, cropdiagnosis, now, last, mandiOk>>

\* db["mandiprice"].update_one(...); return {"ok": True, "id": mid}
MandiUpdate(r) ==
  /\ last = NoResp
  /\ r.op = "admin_update_mandi" /\ r.pc = "update"
  /\ mandiprice' = EchoSet(mandiprice, r.inserted_id, "mandiId")
  /\ last' = Resp("admin_update_mandi", r.in, 200,
                  Dict([ok |-> Bool(TRUE), id |-> S(r.inserted_id)]))
  /\ mandiOk' = mandiOk + 1
  /\ End(r)
  /\ UNCHANGED <<user, cropdiagnosis, nextOid, now>>

(***************************************************************************)
(* Fertilizer recommendation API                                           *)
(***************************************************************************)
Cotton == <<"C", "o", "t", "t", "o", "n">>
Maize == <<"M", "a", "i", "z", "e">>

UpperCase == <<"A", "B", "C", "D", "E", "F", "G", "H", "I", "J", "K", "L", "M",
               "N", "O", "P", "Q", "R", "S", "T", "U", "V", "W", "X", "Y", "Z">>
LowerCase == <<"a", "b", "c", "d", "e", "f", "g", "h", "i", "j", "k", "l", "m",
               "n", "o", "p", "q", "r", "s", "t", "u", "v", "w", "x", "y", "z">>

\* str.lower()
LowerChar(c) ==
  IF \E i \in 1..26 : UpperCase[i] = c
  THEN LowerCase[CHOOSE i \in 1..26 : UpperCase[i] = c]
  ELSE c
Lower(cs) == [i \in DOMAIN cs |-> LowerChar(cs[i])]

\* str.upper() and str.capitalize(), to spell the inputs
UpperChar(c) ==
  IF \E i \in 1..26 : LowerCase[i] = c
  THEN UpperCase[CHOOSE i \in 1..26 : LowerCase[i] = c]
  ELSE c
Upper(cs) == [i \in DOMAIN cs |-> UpperChar(cs[i])]
Capitalize(cs) == [i \in DOMAIN cs |-> IF i = 1 THEN UpperChar(cs[i]) ELSE cs[i]]

SoilWords ==
  {<<"l", "o", "a", "m">>, <<"c", "l", "a", "y">>, <<"s", "a", "n", "d">>,
   <<"s", "i", "l", "t">>, <<"l", "o", "a", "m", "y">>, <<"l", "o", "a">>}
SoilInputs ==
  SoilWords \cup {Upper(w) : w \in SoilWords} \cup {Capitalize(w) : w \in SoilWords}
    \cup {<<>>, <<"l", "O", "a", "M">>, <<"c", "L", "A", "Y">>}

FertilizerInputs ==
  [crop : {Wheat, Rice, Cotton, Maize, Lower(Wheat), <<>>}, soil : SoilInputs]

\* float arithmetic, exact on the fractions used
RECURSIVE Gcd(_, _)
Gcd(a, b) == IF b = 0 THEN a ELSE Gcd(b, a % b)
Reduced(n, d) == LET g == Gcd(IF n < 0 THEN -n ELSE n, d) IN Float(n \div g, d \div g)
FMul(a, b) == Reduced(a.n * b.n, a.d * b.d)
FAdd(a, b) == Reduced(a.n * b.d + b.n * a.d, a.d * b.d)

RECURSIVE Pow10(_)
Pow10(k) == IF k = 0 THEN 1 ELSE 10 * Pow10(k - 1)

\* round(x, ndigits) of a non-negative x: to the nearest, ties to even
Round(x, ndigits) ==
  LET num == x.n * Pow10(ndigits)
      q == num \div x.d
      rem == num % x.d
      up == \/ 2 * rem > x.d
            \/ (2 * rem = x.d /\ q % 2 = 1)
  IN Float(IF up THEN q + 1 ELSE q, Pow10(ndigits))

\* base.get(payload.crop, {"N": 90, "P": 40, "K": 40})
base_nutrients(crop) ==
  CASE crop = Wheat -> [N |-> 120, P |-> 60, K |-> 40]
    [] crop = Rice -> [N |-> 100, P |-> 50, K |-> 50]
    [] crop = Cotton -> [N |-> 150, P |-> 60, K |-> 60]
    [] OTHER -> [N |-> 90, P |-> 40, K |-> 40]

\* the comparison without lower()
multiplier_case_sensitive(soil) ==
  IF soil \in {<<"l", "o", "a", "m">>, <<"c", "l", "a", "y">>}
  THEN Float(1, 1) ELSE Float(9, 10)

\* 1.0 if payload.soil.lower() in ["loam", "clay"] else 0.9
multiplier(soil) ==
  IF Lower(soil) \in {<<"l", "o", "a", "m">>, <<"c", "l", "a", "y">>}
  THEN Float(1, 1) ELSE Float(9, 10)

rec(in) ==
  LET nutrients == base_nutrients(in.crop) IN
  [k \in DOMAIN nutrients |->
     Round(FMul(Float(nutrients[k], 1), multiplier(in.soil)), 1)]

cost_estimate(r) ==
  Round(FAdd(FAdd(FMul(r["N"], Float(15, 10)), FMul(r["P"], Float(2, 1))),
             FMul(r["K"], Float(18, 10))), 2)

fertilizer_recommendation_resp(in) ==
  Resp("fertilizer", in, 200,
       Dict([crop |-> S(in.crop), soil |-> S(in.soil),
             nutrients |-> Dict(rec(in)),
             costEstimate |-> cost_estimate(rec(in)),
             lowCostAlternative |-> S(<<"Use compost + neem cake to replace 20% NPK">>)]))

fertilizer_recommendation(in) ==
  /\ last = NoResp
  /\ last' = fertilizer_recommendation_resp(in)
  /\ UNCHANGED <<user, cropdiagnosis, mandiprice, nextOid, now, inflight, mandiOk>>

(***************************************************************************)
(* Scheduling                                                              *)
(***************************************************************************)
\* the clock advances between any two steps
Tick ==
  /\ last = NoResp
  /\ now < MaxTime
  /\ now' = now + 1
  /\ UNCHANGED <<user, cropdiagnosis, mandiprice, nextOid, inflight, last, mandiOk>>

\* the process serving a request dies between two store operations
Crash(r) ==
  /\ last = NoResp
  /\ End(r)
  /\ UNCHANGED <<user, cropdiagnosis, mandiprice, nextOid, now, last, mandiOk>>

\* the client receives the response
Deliver ==
  /\ last # NoResp
  /\ last' = NoResp
  /\ UNCHANGED <<user, cropdiagnosis, mandiprice, nextOid, now, inflight, mandiOk>>

Init ==
  /\ user = <<>>
  /\ cropdiagnosis = <<>>
  /\ mandiprice = <<>>
  /\ nextOid = 0
  /\ now = 0
  /\ inflight = EmptyBag
  /\ last = NoResp
  /\ mandiOk = 0

\* the steps of the requests in flight, and the delivery of a response
Common ==
  \/ \E r \in Running : Crash(r)
  \/ Deliver

NextUser ==
  \/ \E payload \in RegisterPayloads : RegisterStart(payload)
  \/ \E r \in Running : RegisterCreate(r)
  \/ \E r \in Running : RegisterUpdate(r)
  \/ \E r \in Running : RegisterFind(r)
  \/ \E user_id \in UserIdInputs : get_user(user_id)
  \/ admin_users
  \/ Tick
  \/ Common

\* the user collection alone
SpecUser == Init /\ [][NextUser]_vars

NextDiag ==
  \/ \E in \in DetectInputs : DetectStart(in)
  \/ \E r \in Running : DetectCreate(r)
  \/ \E r \in Running : DetectUpdate(r)
  \/ \E r \in Running : DetectFind(r)
  \/ \E user_id \in DiagnosisUserIds : get_diagnosis(user_id)
  \/ admin_diagnosis
  \/ Tick
  \/ Common

\* the cropdiagnosis collection alone
SpecDiag == Init /\ [][NextDiag]_vars

NextMandi ==
  \/ \E payload \in UpdateMandiPayloads : MandiStart(payload)
  \/ \E r \in Running : MandiCreate(r)
  \/ \E r \in Running : MandiUpdate(r)
  \/ \E district \in Districts, dbBool \in DbBoolOutcomes :
       get_mandi_prices(district, dbBool)
  \/ Tick
  \/ Common

\* the mandiprice collection alone
SpecMandi == Init /\ [][NextMandi]_vars

NextFert ==
  \/ \E in \in FertilizerInputs : fertilizer_recommendation(in)
  \/ Deliver

\* the fertilizer recommendation alone: it reads and writes no collection
SpecFert == Init /\ [][NextFert]_vars

\* every endpoint of the three collections
NextStore ==
  \/ \E payload \in RegisterPayloads : RegisterStart(payload)
  \/ \E r \in Running : RegisterCreate(r)
  \/ \E r \in Running : RegisterUpdate(r)
  \/ \E r \in Running : RegisterFind(r)
  \/ \E user_id \in UserIdInputs : get_user(user_id)
  \/ admin_users
  \/ \E in \in DetectInputs : DetectStart(in)
  \/ \E r \in Running : DetectCreate(r)
  \/ \E r \in Running : DetectUpdate(r)
  \/ \E r \in Running : DetectFind(r)
  \/ \E user_id \in DiagnosisUserIds : get_diagnosis(user_id)
  \/ admin_diagnosis
  \/ \E payload \in UpdateMandiPayloads : MandiStart(payload)
  \/ \E r \in Running : MandiCreate(r)
  \/ \E r \in Running : MandiUpdate(r)
  \/ \E district \in Districts, dbBool \in DbBoolOutcomes :
       get_mandi_prices(district, dbBool)
  \/ Common

\* the three collections together, requests of all kinds interleaved, within
\* one tick of the clock
SpecStore == Init /\ [][NextStore]_vars

Next ==
  \/ NextStore
  \/ \E in \in FertilizerInputs : fertilizer_recommendation(in)
  \/ Tick

Spec == Init /\ [][Next]_vars

(***************************************************************************)
(* Properties                                                              *)
(***************************************************************************)
IsDict(x) == x.t = "dict"
IsList(x) == x.t = "list"
Has(d, k) == k \in DOMAIN d
IdsOf(coll) == {StrOid(coll[i]["_id"]) : i \in DOMAIN coll}
ErrorBody(text) == Dict([detail |-> S(text)])

\* C1: a registration whose phone is the empty string is answered 400
\* ("Phone is required") in the step that receives it, and that step leaves
\* the user collection and the requests in flight as they were; so no request
\* with an empty phone ever reaches the store, after any history.
C1_EmptyPhoneRejected ==
  [][\A payload \in RegisterPayloads :
       (payload.phone = S(<<>>) /\ RegisterStart(payload))
         => /\ last'.op = "register" /\ last'.in = payload
            /\ last'.status = 400
            /\ last'.body = ErrorBody(<<"Phone is required">>)
            /\ user' = user
            /\ inflight' = inflight
            /\ \A i \in DOMAIN user' : user'[i].phone # S(<<>>)]_vars

\* reached: an empty-phone registration refused after an earlier registration
\* was stored and while another is between its store operations
C1_Witness ==
  /\ last.op = "register" /\ last.status = 400
  /\ last.in.phone = S(<<>>) /\ last.in.crops # None
  /\ Len(user) >= 1
  /\ inflight # EmptyBag

\* C2: a detect-disease request whose image has zero length is answered 400
\* ("Empty image") in the step that receives it, and that step leaves the
\* cropdiagnosis collection and the requests in flight as they were, for any
\* userId and crop.
C2_EmptyImageRejected ==
  [][\A in \in DetectInputs :
       (Len(in.content) = 0 /\ DetectStart(in))
         => /\ last'.op = "detect_disease" /\ last'.in = in
            /\ last'.status = 400
            /\ last'.body = ErrorBody(<<"Empty image">>)
            /\ cropdiagnosis' = cropdiagnosis
            /\ inflight' = inflight]_vars

\* reached: an empty image refused when a diagnosis is already stored
C2_Witness ==
  /\ last.op = "detect_disease" /\ last.status = 400
  /\ Len(last.in.content) = 0
  /\ Len(cropdiagnosis) >= 1

\* C3 (as claimed): a lookup by an identifier that is not a well-formed
\* document id is answered 400, not 404 and not the generic server error.
C3_MalformedIdIs400 ==
  (last.op = "get_user" /\ ~IsValidOid(last.in)) => last.status = 400

\* text order of two isoformat texts of equal length
RECURSIVE TextGeq(_, _)
TextGeq(a, b) ==
  IF a = <<>> \/ b = <<>> THEN Len(a) >= Len(b)
  ELSE IF a[1] = b[1] THEN TextGeq(Tail(a), Tail(b))
  ELSE LET pos(c) == CHOOSE i \in 1..10 : DecDigits[i] = c IN pos(a[1]) > pos(b[1])

\* C4: whenever get_diagnosis answers, for any userId and in any reachable
\* state of the collection, it answers 200 with exactly the stored
\* cropdiagnosis records of that userId, each once and normalised, their dates
\* non-increasing from first to last; with no record of that userId the
\* answer is the empty list.
C4_DiagnosisHistory ==
  last.op = "get_diagnosis" =>
    LET body == last.body.v
        stored == {i \in DOMAIN cropdiagnosis :
                     cropdiagnosis[i].userId = S(last.in)}
    IN /\ last.status = 200
       /\ IsList(last.body)
       /\ Len(body) = Cardinality(stored)
       /\ {body[k].v.id.v : k \in DOMAIN body}
            = {StrOid(cropdiagnosis[i]["_id"]) : i \in stored}
       /\ \A k \in DOMAIN body :
            /\ body[k].v.userId = S(last.in)
            /\ \E i \in stored : body[k] = oid_to_str(Dict(cropdiagnosis[i]))
       /\ \A k \in 1..(Len(body) - 1) :
            TextGeq(body[k].v.date.v, body[k + 1].v.date.v)
       /\ (stored = {} => body = <<>>)

\* reached: a history of two records, the newer stored last and returned
\* first, while another user's record is stored too
C4_Witness ==
  /\ last.op = "get_diagnosis"
  /\ Len(last.body.v) = 2
  /\ last.body.v[1].v.date # last.body.v[2].v.date
  /\ last.body.v[1].v.id.v = StrOid(cropdiagnosis[Len(cropdiagnosis)]["_id"])

\* reached: the empty history of a userId with no record, others stored
C4_WitnessEmpty ==
  /\ last.op = "get_diagnosis" /\ last.body.v = <<>> /\ Len(cropdiagnosis) >= 1

MockEntry(district, crop, price) ==
  Dict([district |-> S(district), crop |-> S(crop), price |-> PyInt(price),
        updatedAt |-> S(IsoFormat(utcnow))])

\* C5 (as claimed): a mandi price query leaves the mandiprice collection as it
\* was and answers 200: with no stored record of the district, the two mock
\* entries (Wheat 1850, then Rice 2100) tagged with the district; with stored
\* records of the district, exactly those, newest first, and no mock entry.
C5_MandiQuery ==
  [][\A district \in Districts, dbBool \in DbBoolOutcomes :
       get_mandi_prices(district, dbBool)
         => LET stored == {i \in DOMAIN mandiprice :
                             mandiprice[i].district = S(district)}
                body == last'.body.v
            IN /\ mandiprice' = mandiprice
               /\ last'.status = 200
               /\ IsList(last'.body)
               /\ stored = {} =>
                    body = <<MockEntry(district, Wheat, 1850),
                             MockEntry(district, Rice, 2100)>>
               /\ stored # {} =>
                    /\ Len(body) = Cardinality(stored)
                    /\ {body[k].v.id.v : k \in DOMAIN body}
                         = {StrOid(mandiprice[i]["_id"]) : i \in stored}
                    /\ \A k \in 1..(Len(body) - 1) :
                         TextGeq(body[k].v.updatedAt.v, body[k + 1].v.updatedAt.v)]_vars

\* the records of a response body: the body itself, or the elements of a list
RecordsOk(body, Ok(_)) ==
  IF IsList(body) THEN \A k \in DOMAIN body.v : Ok(body.v[k]) ELSE Ok(body)

NoNativeId(record) ==
  /\ IsDict(record)
  /\ ~Has(record.v, "_id")
  /\ \A k \in DOMAIN record.v : record.v[k].t # "oid"

HasStringId(record) ==
  /\ Has(record.v, "id")
  /\ record.v.id.t = "str"
  /\ IsValidOid(record.v.id.v)

Normalised(record) == NoNativeId(record) /\ HasStringId(record)

\* the endpoints that return records of the store
RecordReturning ==
  {"register", "get_user", "detect_disease", "get_diagnosis",
   "get_mandi_prices", "admin_users", "admin_diagnosis"}

\* a mandi query answered with the mock list
MockAnswer ==
  last.op = "get_mandi_prices" /\ MandiCursor(last.in) = <<>>

\* C6 (as claimed): every record returned by a record-returning endpoint, also
\* each element of a returned list, has the field id, a string, and neither
\* the field _id nor a value of the store's identifier type.
C6_AllRecordsHaveId ==
  (last.op \in RecordReturning /\ last.status = 200)
    => RecordsOk(last.body, Normalised)

\* C6 (amended): every returned record that comes from the store has the
\* field id, the 24-digit text of its identifier; the mock entries of a mandi
\* query have no id; and no returned record, mock or stored, has the field
\* _id or a value of the store's identifier type.
C6_StoredRecordsHaveId ==
  (last.op \in RecordReturning /\ last.status = 200)
    => IF MockAnswer
       THEN RecordsOk(last.body,
                      LAMBDA record : NoNativeId(record) /\ ~Has(record.v, "id"))
       ELSE RecordsOk(last.body, Normalised)

\* reached: the admin list of users, its record normalised, while a diagnosis
\* is stored too
C6_Witness ==
  /\ last.op = "admin_users" /\ Len(last.body.v) = 1
  /\ Normalised(last.body.v[1])
  /\ Len(cropdiagnosis) = 1

\* reached: a mandi query answered with stored records
C6_WitnessMandi ==
  /\ last.op = "get_mandi_prices" /\ last.status = 200 /\ ~MockAnswer
  /\ Normalised(last.body.v[1])

\* C7 (as claimed): every stored mandiprice record has price >= 0.
C7_PriceNonNegative ==
  \A i \in DOMAIN mandiprice : mandiprice[i].price.n >= 0

KeptFields == {"_id", "district", "crop", "price", "updatedAt"}

\* a step keeps every stored mandiprice record and its fields, and adds at
\* most one record, whose identifier no stored record has
AppendOnlyStep ==
  /\ Len(mandiprice') \in {Len(mandiprice), Len(mandiprice) + 1}
  /\ \A i \in DOMAIN mandiprice :
       \A k \in KeptFields : Get(mandiprice'[i], k) = Get(mandiprice[i], k)
  /\ Len(mandiprice') = Len(mandiprice) + 1
       => StrOid(mandiprice'[Len(mandiprice')]["_id"]) \notin IdsOf(mandiprice)
  /\ mandiOk' = mandiOk + 1
       => /\ last'.status = 200
          /\ \E i \in DOMAIN mandiprice' :
               /\ StrOid(mandiprice'[i]["_id"]) = last'.body.v.id.v
               /\ \A k \in {"district", "crop", "price"} :
                    Get(mandiprice'[i], k) = last'.in[k]

\* C8 (as claimed): the history is append-only, and when a call has just been
\* answered, the n-th to succeed, the collection holds n records.
C8_AppendOnlyExactCount ==
  [][/\ AppendOnlyStep
     /\ last'.op = "admin_update_mandi" => Len(mandiprice') = mandiOk']_vars

\* C8 (amended): the history is append-only: no step removes a record or
\* changes the identifier, district, crop, price or updatedAt of one, each
\* answered call has inserted one record with a fresh identifier and the
\* payload's values; after n answered calls the collection holds at least n
\* records, n of them stamped with mandiId, the others inserted by calls
\* that crashed or have not reached their update.
C8_AppendOnly ==
  [][/\ AppendOnlyStep
     /\ Cardinality(IdsOf(mandiprice')) = Len(mandiprice')
     /\ Len(mandiprice') >= mandiOk'
     /\ Cardinality({i \in DOMAIN mandiprice' : Has(mandiprice'[i], "mandiId")})
          = mandiOk']_vars

\* reached: a call answered for the district and crop of a stored record,
\* that record left by a call that never reached its update
C8_Witness ==
  /\ last.op = "admin_update_mandi"
  /\ mandiOk = 1
  /\ Len(mandiprice) = 2
  /\ mandiprice[1].district = mandiprice[2].district
  /\ mandiprice[1].crop = mandiprice[2].crop
  /\ inflight = EmptyBag

\* soil is w in any mix of upper and lower case
SameWord(soil, w) ==
  /\ Len(soil) = Len(w)
  /\ \A i \in DOMAIN w : soil[i] \in {w[i], UpperChar(w[i])}

\* the nutrients in tenths: the base table times 10 (loam or clay) or 9
ExpectedTenths(crop, soil) ==
  LET b == IF crop = Wheat THEN <<120, 60, 40>>
           ELSE IF crop = Rice THEN <<100, 50, 50>>
           ELSE IF crop = Cotton THEN <<150, 60, 60>>
           ELSE <<90, 40, 40>>
      f == IF SameWord(soil, <<"l", "o", "a", "m">>)
              \/ SameWord(soil, <<"c", "l", "a", "y">>) THEN 10 ELSE 9
  IN [i \in 1..3 |-> b[i] * f]

\* C9: the recommendation is the base table of the crop (the default table
\* for any other crop) times 1.0 for loam or clay in any case and 0.9
\* otherwise, in tenths, and costEstimate is 1.5 N + 2.0 P + 1.8 K in
\* hundredths; Wheat on Loam gives 120.0, 60.0, 40.0 and 372.0.
C9_Fertilizer ==
  /\ \A in \in FertilizerInputs :
       LET body == fertilizer_recommendation_resp(in).body.v
           e == ExpectedTenths(in.crop, in.soil)
       IN /\ body.nutrients.v["N"] = Float(e[1], 10)
          /\ body.nutrients.v["P"] = Float(e[2], 10)
          /\ body.nutrients.v["K"] = Float(e[3], 10)
          /\ body.costEstimate = Float(15 * e[1] + 20 * e[2] + 18 * e[3], 100)
  /\ last.op = "fertilizer" =>
       /\ last = fertilizer_recommendation_resp(last.in)
       /\ (last.in.crop = Wheat /\ last.in.soil = Capitalize(<<"l", "o", "a", "m">>))
            => /\ last.body.v.nutrients.v = [N |-> Float(1200, 10),
                                              P |-> Float(600, 10),
                                              K |-> Float(400, 10)]
               /\ last.body.v.costEstimate = Float(37200, 100)

\* reached: the answer for Wheat on Loam
C9_Witness ==
  /\ last.op = "fertilizer"
  /\ last.in.crop = Wheat /\ last.in.soil = Capitalize(<<"l", "o", "a", "m">>)
  /\ last.body.v.costEstimate = Float(37200, 100)

\* every record of the collection has its identifier, and its echoed field
\* is absent or the text of that identifier
EchoOk(coll, field) ==
  \A i \in DOMAIN coll :
    /\ Has(coll[i], "_id") /\ coll[i]["_id"].t = "oid"
    /\ Has(coll[i], field) => coll[i][field] = S(StrOid(coll[i]["_id"]))

\* the record the answer names has its echoed field
AnsweredHasEcho(coll, id, field) ==
  \E i \in DOMAIN coll : StrOid(coll[i]["_id"]) = id /\ Has(coll[i], field)

\* C10: in every reachable state, with requests interleaved and crashed
\* between their store operations, every record of the three collections
\* has its identifier, and its echoed field (userId, diagnosisId, mandiId) is
\* absent or the text of the record's own identifier; identifiers are not
\* shared; and a request that has just been answered left the field present.
C10_IdentifierEcho ==
  /\ EchoOk(user, "userId")
  /\ EchoOk(cropdiagnosis, "diagnosisId")
  /\ EchoOk(mandiprice, "mandiId")
  /\ Cardinality(IdsOf(user) \cup IdsOf(cropdiagnosis) \cup IdsOf(mandiprice))
       = Len(user) + Len(cropdiagnosis) + Len(mandiprice)
  /\ (last.op = "register" /\ last.status = 200)
       => /\ AnsweredHasEcho(user, last.body.v.id.v, "userId")
          /\ last.body.v.userId = last.body.v.id
  /\ (last.op = "detect_disease" /\ last.status = 200)
       => /\ AnsweredHasEcho(cropdiagnosis, last.body.v.id.v, "diagnosisId")
          /\ last.body.v.diagnosisId = last.body.v.id
  /\ (last.op = "admin_update_mandi" /\ last.status = 200)
       => AnsweredHasEcho(mandiprice, last.body.v.id.v, "mandiId")

\* reached: a request answered with its echoed field, beside a record left
\* without the field by a crashed request
C10_Witness ==
  /\ last.op = "register" /\ last.status = 200
  /\ Len(user) = 2
  /\ \E i \in DOMAIN user : ~Has(user[i], "userId")
  /\ inflight = EmptyBag

====
